---- MODULE Spec2Model ----
(***************************************************************************)
(* The observability pipeline of main.py: the log_requests middleware,    *)
(* the route handlers behind call_next, the handler registered for        *)
(* Exception, and the log_system_stats sampler thread.                     *)
(*                                                                         *)
(* Requests run as coroutines on one event loop: the code between two      *)
(* awaits is one atomic step, and other requests may run at each await     *)
(* (request.body() on line 83, call_next on line 89).                      *)
(***************************************************************************)
EXTENDS Integers, Sequences, FiniteSets, TLC

\* ------------------------------------------------------------------ bounds
\* largest value of the wall clock read by time.time() in the request model
MaxTime == 1
\* largest product id a client asks for (the catalog holds ids 1..3)
MaxProductId == 4
\* records the server writes through the "uvicorn" logger
MaxUvicornRecords == 1
\* seconds of sampler running time that are explored
MaxRunTime == 3800
\* stats records written while requests are followed next to the sampler
MaxOverlapRecords == 1

\* ------------------------------------------------------- program constants
\* psutil.cpu_percent(interval=1) blocks for one second (line 31)
CpuInterval == 1
\* time.sleep(60) (line 37)
SleepSeconds == 60

\* the requests in flight (two clients, A and B)
Reqs == {"A", "B"}

NoResponse == [status |-> 0, body |-> "none"]
NoRequest == [method |-> "none", route |-> "none", product_id |-> 0]
NoExc == "none"

\* texts of the exceptions a route handler may raise
ExcTexts == {"boom"}


\* DUMMY_PRODUCTS as built on lines 51-55
InitialProducts ==
    << [id |-> 1, name |-> "Laptop", price |-> 1500],
       [id |-> 2, name |-> "Smartphone", price |-> 800],
       [id |-> 3, name |-> "Headphones", price |-> 200] >>

\* the product ids clients may ask for
ProductIds == 1..MaxProductId

\* every request the routes are written for: method, route, path parameter
AllTargets ==
    { [method |-> "GET", route |-> "home", product_id |-> 0],
      [method |-> "GET", route |-> "catch_all", product_id |-> 0] }
    \cup { [method |-> "GET", route |-> "product_detail", product_id |-> i] : i \in ProductIds }
    \cup { [method |-> "POST", route |-> "add_to_cart", product_id |-> i] : i \in ProductIds }

\* the requests the two clients send while they overlap: the page of a
\* catalog product, and a cart post for a product that is not in the catalog
Targets ==
    { t \in AllTargets :
        \/ t.route = "product_detail" /\ t.product_id = InitialProducts[1].id
        \/ t.route = "add_to_cart" /\ t.product_id = MaxProductId }

\* what request.body() and the decode on line 85 can do
BodyKinds == {"empty", "text", "undecodable", "unreadable"}

VARIABLES
    process,            \* the server process: "running", or "aborted" at import
    sink_stalled,       \* the log file does not take writes at the moment
    started,            \* startup_event has run
    now,                \* time.time()
    DUMMY_PRODUCTS,     \* the module-level catalog list
    pc,                 \* position of each request in the pipeline
    request,            \* the Request object of each request
    start_time,         \* local start_time of each log_requests call
    response,           \* local response of each log_requests call
    exc,                \* exception in flight for each request
    call_count,         \* number of call_next invocations per request
    sent,               \* responses that left towards the client, per request
    body_result,        \* what the body read of each request came to
    path,               \* history: the stages each request went through
    sink,               \* logs/server.log: the records written, in order
    sampler_pc,         \* position of the log_system_stats thread
    uptime,             \* seconds the sampler thread has been running
    stats_count,        \* "System Stats" records emitted
    sampler_fault       \* a counter query has raised

reqvars == <<pc, request, start_time, response, exc, call_count, sent, body_result, path>>
samplervars == <<sampler_pc, uptime, stats_count, sampler_fault>>
vars == <<process, sink_stalled, started, now, DUMMY_PRODUCTS, reqvars, sink, samplervars>>

\* ----------------------------------------------------------------- logging
\* a record as the format of line 20 writes it: time, level, message
LogRecordAt(who, level, kind, data, t) ==
    [req |-> who, level |-> level, kind |-> kind, ts |-> t, data |-> data]

\* logging.<level>(message) on the event loop: stamped with the wall clock
LogRecord(who, level, kind, data) == LogRecordAt(who, level, kind, data, now)

\* positions in the sink of the records of one kind written for request r
RecordsOfKind(r, kind) == { i \in DOMAIN sink : sink[i].req = r /\ sink[i].kind = kind }

\* ------------------------------------------------------------------ routes
\* variant: the scan stops one element short of the end of the list
FindProduct_skips_last(products, product_id) ==
    LET hits == { i \in 1..(Len(products) - 1) : products[i].id = product_id }
    IN  IF hits = {} THEN 0 ELSE CHOOSE i \in hits : \A j \in hits : i <= j

\* next((p for p in DUMMY_PRODUCTS if p["id"] == product_id), None)
FindProduct(products, product_id) ==
    LET hits == { i \in 1..Len(products) : products[i].id = product_id }
    IN  IF hits = {} THEN 0 ELSE CHOOSE i \in hits : \A j \in hits : i <= j

\* home (lines 96-99)
home(r) ==
    [logs |-> << LogRecord(r, "INFO", "Processing homepage", <<>>) >>,
     response |-> [status |-> 200, body |-> "index.html"]]

\* product_detail (lines 102-111)
product_detail(r, products, product_id) ==
    LET i == FindProduct(products, product_id)
        first == LogRecord(r, "INFO", "Processing product", <<product_id>>)
    IN  IF i = 0
        THEN [logs |-> << first, LogRecord(r, "WARNING", "Product not found", <<product_id>>) >>,
              response |-> [status |-> 404, body |-> "404.html"]]
        ELSE [logs |-> << first >>,
              response |-> [status |-> 200, body |-> "product.html"]]

\* add_to_cart (lines 113-123)
add_to_cart(r, products, product_id) ==
    LET i == FindProduct(products, product_id)
    IN  IF i = 0
        THEN [logs |-> << LogRecord(r, "WARNING", "Add to Cart failed", <<product_id>>) >>,
              response |-> [status |-> 404, body |-> "Product not found"]]
        ELSE [logs |-> << LogRecord(r, "INFO", "Product added to cart", <<products[i].name>>) >>,
              response |-> [status |-> 200, body |-> "Added to cart"]]

\* catch_all (lines 126-130)
catch_all(r) ==
    [logs |-> << LogRecord(r, "WARNING", "Undefined route", <<>>) >>,
     response |-> [status |-> 404, body |-> "404.html"]]

\* the router: the decorated function that serves a request
RouteCall(r, req, products) ==
    CASE req.route = "home" -> home(r)
      [] req.route = "product_detail" -> product_detail(r, products, req.product_id)
      [] req.route = "add_to_cart" -> add_to_cart(r, products, req.product_id)
      [] OTHER -> catch_all(r)

\* ------------------------------------------------------ exception handlers
\* first registration for Exception (lines 133-137)
html_exception_handler(r, text) ==
    [logs |-> << LogRecord(r, "ERROR", "Unhandled error", <<text, "traceback">>) >>,
     response |-> [status |-> 500, body |-> "404.html"]]

\* variant: the fallback body carries str(exc)
json_exception_handler_leaks(r, text) ==
    [logs |-> << LogRecord(r, "ERROR", "Unhandled error", <<text, "traceback">>) >>,
     response |-> [status |-> 500, body |-> text]]

\* second registration for Exception (lines 140-144)
json_exception_handler(r, text) ==
    [logs |-> << LogRecord(r, "ERROR", "Unhandled error", <<text, "traceback">>) >>,
     response |-> [status |-> 500, body |-> "Internal server error"]]

\* app.exception_handler(Exception) stores the function under the key
\* Exception: the registrations in source order; the last one stays
Registrations == << "html", "json" >>

\* variant: a later registration for the same class is ignored
exception_handlers_first == Registrations[1]

exception_handlers == Registrations[Len(Registrations)]

global_exception_handler(r, text) ==
    IF exception_handlers = "json"
    THEN json_exception_handler(r, text)
    ELSE html_exception_handler(r, text)

\* -------------------------------------------------------------------- Init
\* what importing main.py comes to: logging.basicConfig(filename=LOG_FILE)
\* on lines 17-21 opens logs/server.log; if it cannot be opened the import
\* raises and the process ends before the app exists
ImportOutcomes == {"running", "aborted"}

Init ==
    /\ process \in ImportOutcomes
    /\ sink_stalled = FALSE
    /\ started = FALSE
    /\ now = 0
    /\ DUMMY_PRODUCTS = InitialProducts
    /\ pc = [r \in Reqs |-> "idle"]
    /\ request = [r \in Reqs |-> NoRequest]
    /\ start_time = [r \in Reqs |-> 0]
    /\ response = [r \in Reqs |-> NoResponse]
    /\ exc = [r \in Reqs |-> NoExc]
    /\ call_count = [r \in Reqs |-> 0]
    /\ sent = [r \in Reqs |-> << >>]
    /\ body_result = [r \in Reqs |-> "pending"]
    /\ path = [r \in Reqs |-> << >>]
    /\ sink = << >>
    /\ sampler_pc = "not_started"
    /\ uptime = 0
    /\ stats_count = 0
    /\ sampler_fault = FALSE

\* startup_event (lines 60-73) and start_logging_system_stats (lines 40-42):
\* two records, then the sampler is handed to the executor and startup ends
startup_event ==
    /\ process = "running"
    /\ ~started
    /\ started' = TRUE
    /\ sink' = sink \o << LogRecord("server", "INFO", "Server is starting", <<>>),
                          LogRecord("server", "INFO", "System Info", <<>>) >>
    /\ sampler_pc' = "measure"
    /\ UNCHANGED <<process, sink_stalled, now, DUMMY_PRODUCTS, reqvars, uptime, stats_count, sampler_fault>>

\* the wall clock advances
Tick ==
    /\ started
    /\ now < MaxTime
    /\ now' = now + 1
    /\ UNCHANGED <<process, sink_stalled, started, DUMMY_PRODUCTS, reqvars, sink, samplervars>>

\* ------------------------------------------------------------ log_requests
\* lines 77-83: start_time, the entry record, the headers record, then the
\* coroutine suspends in request.body()
request_enters(r, targets) ==
    /\ started
    /\ pc[r] = "idle"
    /\ \E t \in targets :
        /\ request' = [request EXCEPT ![r] = t]
        /\ sink' = sink \o << LogRecord(r, "INFO", "Request", <<t.method, t.route, t.product_id>>),
                              LogRecord(r, "DEBUG", "Headers", <<>>) >>
    /\ start_time' = [start_time EXCEPT ![r] = now]
    /\ path' = [path EXCEPT ![r] = << "Received" >>]
    /\ pc' = [pc EXCEPT ![r] = "await_body"]
    /\ UNCHANGED <<process, sink_stalled, started, now, DUMMY_PRODUCTS, response, exc, call_count, sent, body_result, samplervars>>

\* the same for the requests of two overlapping clients
log_requests_entry(r) == request_enters(r, Targets)

\* variant: the except branch logs the notice and raises again
BodyCapture_aborts(r, kind) ==
    CASE kind = "text" ->
            [logs |-> << LogRecord(r, "DEBUG", "Request Body", <<>>) >>,
             stages |-> << "BodyCaptured" >>, result |-> "text", proceed |-> TRUE]
      [] kind = "empty" ->
            [logs |-> << >>, stages |-> << >>, result |-> "empty", proceed |-> TRUE]
      [] OTHER ->
            [logs |-> << LogRecord(r, "DEBUG", "Unable to read request body", <<>>) >>,
             stages |-> << >>, result |-> "failed", proceed |-> FALSE]

\* variant: the except branch is a bare pass
BodyCapture_silent(r, kind) ==
    CASE kind = "text" ->
            [logs |-> << LogRecord(r, "DEBUG", "Request Body", <<>>) >>,
             stages |-> << "BodyCaptured" >>, result |-> "text", proceed |-> TRUE]
      [] kind = "empty" ->
            [logs |-> << >>, stages |-> << >>, result |-> "empty", proceed |-> TRUE]
      [] OTHER ->
            [logs |-> << >>, stages |-> << >>, result |-> "failed", proceed |-> TRUE]

\* variant: line 84 tests "is not None", so an empty body is logged too
BodyCapture_logs_empty(r, kind) ==
    CASE kind \in {"text", "empty"} ->
            [logs |-> << LogRecord(r, "DEBUG", "Request Body", <<>>) >>,
             stages |-> << "BodyCaptured" >>, result |-> kind, proceed |-> TRUE]
      [] OTHER ->
            [logs |-> << LogRecord(r, "DEBUG", "Unable to read request body", <<>>) >>,
             stages |-> << >>, result |-> "failed", proceed |-> TRUE]

\* the records and stages of lines 83-87 for each outcome of the body read
BodyCapture(r, kind) ==
    CASE kind = "text" ->
            [logs |-> << LogRecord(r, "DEBUG", "Request Body", <<>>) >>,
             stages |-> << "BodyCaptured" >>, result |-> "text", proceed |-> TRUE]
      [] kind = "empty" ->
            [logs |-> << >>, stages |-> << >>, result |-> "empty", proceed |-> TRUE]
      [] OTHER ->
            [logs |-> << LogRecord(r, "DEBUG", "Unable to read request body", <<>>) >>,
             stages |-> << >>, result |-> "failed", proceed |-> TRUE]

\* lines 83-89: request.body() resumes (or raises), the body record or the
\* notice is written, and call_next(request) is invoked
log_requests_body(r) ==
    /\ pc[r] = "await_body"
    /\ \E kind \in BodyKinds :
        LET b == BodyCapture(r, kind)
        IN  /\ sink' = sink \o b.logs
            /\ body_result' = [body_result EXCEPT ![r] = b.result]
            /\ IF b.proceed
               THEN /\ call_count' = [call_count EXCEPT ![r] = @ + 1]
                    /\ path' = [path EXCEPT ![r] = @ \o b.stages \o << "Dispatched" >>]
                    /\ pc' = [pc EXCEPT ![r] = "await_handler"]
                    /\ exc' = exc
               ELSE /\ call_count' = call_count
                    /\ path' = [path EXCEPT ![r] = @ \o << "Faulted" >>]
                    /\ pc' = [pc EXCEPT ![r] = "raised"]
                    /\ exc' = [exc EXCEPT ![r] = "body"]
    /\ UNCHANGED <<process, sink_stalled, started, now, DUMMY_PRODUCTS, request, start_time, response, sent, samplervars>>

\* the next stage runs the route and returns its response
call_next_returns(r) ==
    /\ pc[r] = "await_handler"
    /\ LET out == RouteCall(r, request[r], DUMMY_PRODUCTS)
       IN  /\ sink' = sink \o out.logs
           /\ response' = [response EXCEPT ![r] = out.response]
    /\ path' = [path EXCEPT ![r] = @ \o << "Completed" >>]
    /\ pc' = [pc EXCEPT ![r] = "returned"]
    /\ UNCHANGED <<process, sink_stalled, started, now, DUMMY_PRODUCTS, request, start_time, exc, call_count, sent, body_result, samplervars>>

\* variant: line 89 sits in a try that logs the error and raises it again
call_next_raises_logged(r) ==
    /\ pc[r] = "await_handler"
    /\ \E text \in ExcTexts :
        /\ exc' = [exc EXCEPT ![r] = text]
        /\ sink' = Append(sink, LogRecord(r, "ERROR", "Unhandled error", <<text, "traceback">>))
    /\ path' = [path EXCEPT ![r] = @ \o << "Faulted" >>]
    /\ pc' = [pc EXCEPT ![r] = "raised"]
    /\ UNCHANGED <<process, sink_stalled, started, now, DUMMY_PRODUCTS, request, start_time, response, call_count, sent, body_result, samplervars>>

\* the next stage raises: line 89 has no try, the exception leaves log_requests
call_next_raises(r) ==
    /\ pc[r] = "await_handler"
    /\ \E text \in ExcTexts : exc' = [exc EXCEPT ![r] = text]
    /\ path' = [path EXCEPT ![r] = @ \o << "Faulted" >>]
    /\ pc' = [pc EXCEPT ![r] = "raised"]
    /\ UNCHANGED <<process, sink_stalled, started, now, DUMMY_PRODUCTS, request, start_time, response, call_count, sent, body_result, sink, samplervars>>

\* variant: start_time is one module-level variable, set by the request that
\* entered last
ExitRecord_shared_start(r, status, started_at) ==
    LET entries == { i \in DOMAIN sink : sink[i].kind = "Request" }
        last == CHOOSE i \in entries : \A j \in entries : j <= i
    IN  LogRecord(r, "INFO", "Response", <<status, now - sink[last].ts>>)

\* the exit record of line 92
ExitRecord(r, status, started_at) ==
    LogRecord(r, "INFO", "Response", <<status, now - started_at>>)

\* variant: line 93 comes before line 92, the exit record is never written
log_requests_exit_unlogged(r) ==
    /\ pc[r] = "returned"
    /\ sent' = [sent EXCEPT ![r] = Append(@, response[r])]
    /\ path' = [path EXCEPT ![r] = @ \o << "Responded" >>]
    /\ pc' = [pc EXCEPT ![r] = "done"]
    /\ UNCHANGED <<process, sink_stalled, started, now, DUMMY_PRODUCTS, request, start_time, response, exc, call_count, body_result, sink, samplervars>>

\* variant: call_next is not awaited, lines 91-92 run while the route has not
\* returned yet
log_requests_exit_early(r) ==
    /\ pc[r] \in {"await_handler", "returned"}
    /\ RecordsOfKind(r, "Response") = {}
    /\ sink' = Append(sink, ExitRecord(r, response[r].status, start_time[r]))
    /\ IF pc[r] = "returned"
       THEN /\ sent' = [sent EXCEPT ![r] = Append(@, response[r])]
            /\ path' = [path EXCEPT ![r] = @ \o << "Logged", "Responded" >>]
            /\ pc' = [pc EXCEPT ![r] = "done"]
       ELSE UNCHANGED <<sent, path, pc>>
    /\ UNCHANGED <<process, sink_stalled, started, now, DUMMY_PRODUCTS, request, start_time, response, exc, call_count, body_result, samplervars>>

\* lines 91-93: duration, the exit record, return response
log_requests_exit(r) ==
    /\ pc[r] = "returned"
    /\ sink' = Append(sink, ExitRecord(r, response[r].status, start_time[r]))
    /\ sent' = [sent EXCEPT ![r] = Append(@, response[r])]
    /\ path' = [path EXCEPT ![r] = @ \o << "Logged", "Responded" >>]
    /\ pc' = [pc EXCEPT ![r] = "done"]
    /\ UNCHANGED <<process, sink_stalled, started, now, DUMMY_PRODUCTS, request, start_time, response, exc, call_count, body_result, samplervars>>

\* variant: the handler logs the error and raises instead of returning
exception_handler_reraises(r) ==
    /\ pc[r] = "raised"
    /\ sink' = sink \o global_exception_handler(r, exc[r]).logs
    /\ path' = [path EXCEPT ![r] = @ \o << "Logged", "Responded" >>]
    /\ pc' = [pc EXCEPT ![r] = "done"]
    /\ UNCHANGED <<process, sink_stalled, started, now, DUMMY_PRODUCTS, request, start_time, response, exc, call_count, sent, body_result, samplervars>>

\* lines 141-144: the handler registered for Exception logs the error and
\* returns the fallback response
exception_handler_runs(r) ==
    /\ pc[r] = "raised"
    /\ LET out == global_exception_handler(r, exc[r])
       IN  /\ sink' = sink \o out.logs
           /\ sent' = [sent EXCEPT ![r] = Append(@, out.response)]
    /\ exc' = [exc EXCEPT ![r] = NoExc]
    /\ path' = [path EXCEPT ![r] = @ \o << "Logged", "Responded" >>]
    /\ pc' = [pc EXCEPT ![r] = "done"]
    /\ UNCHANGED <<process, sink_stalled, started, now, DUMMY_PRODUCTS, request, start_time, response, call_count, body_result, samplervars>>

\* ------------------------------------------------------- log_system_stats
\* lines 31-33: cpu_percent(interval=1) blocks for a second, then the memory
\* and disk queries; all three answer
sampler_measure ==
    /\ sampler_pc = "measure"
    /\ uptime + CpuInterval <= MaxRunTime
    /\ uptime' = uptime + CpuInterval
    /\ sampler_pc' = "log"
    /\ UNCHANGED <<process, sink_stalled, started, now, DUMMY_PRODUCTS, reqvars, sink, stats_count, sampler_fault>>

\* variant: the sampler runs where an uncaught exception ends the process
SamplerOnFault_kills == [pc |-> "exited", logs |-> << >>, process |-> "aborted"]

\* what the loop does when a counter query of lines 31-33 raises: there is no
\* try in log_system_stats, so the exception ends the while loop and the
\* function; the executor keeps it in a future nobody reads
SamplerOnFault == [pc |-> "exited", logs |-> << >>, process |-> "running"]

sampler_read_fails ==
    /\ sampler_pc = "measure"
    /\ sampler_fault' = TRUE
    /\ sampler_pc' = SamplerOnFault.pc
    /\ sink' = sink \o SamplerOnFault.logs
    /\ process' = SamplerOnFault.process
    /\ UNCHANGED <<sink_stalled, started, now, DUMMY_PRODUCTS, reqvars, uptime, stats_count>>

\* lines 34-36: the stats record
sampler_log ==
    /\ sampler_pc = "log"
    /\ sink' = Append(sink, LogRecordAt("sampler", "INFO", "System Stats", <<>>, uptime))
    /\ stats_count' = stats_count + 1
    /\ sampler_pc' = "sleep"
    /\ UNCHANGED <<process, sink_stalled, started, now, DUMMY_PRODUCTS, reqvars, uptime, sampler_fault>>

\* line 37: time.sleep(60), then the next round of the while loop
sampler_sleep ==
    /\ sampler_pc = "sleep"
    /\ uptime + SleepSeconds <= MaxRunTime
    /\ uptime' = uptime + SleepSeconds
    /\ sampler_pc' = "measure"
    /\ UNCHANGED <<process, sink_stalled, started, now, DUMMY_PRODUCTS, reqvars, sink, stats_count, sampler_fault>>

Next ==
    \/ startup_event
    \/ Tick
    \/ \E r \in Reqs : log_requests_entry(r)
    \/ \E r \in Reqs : log_requests_body(r)
    \/ \E r \in Reqs : call_next_returns(r)
    \/ \E r \in Reqs : call_next_raises(r)
    \/ \E r \in Reqs : log_requests_exit(r)
    \/ \E r \in Reqs : exception_handler_runs(r)

Spec == Init /\ [][Next]_vars

\* the event loop runs every coroutine that is ready, the client delivers the
\* body (or the read fails), and the route returns or raises
Fairness ==
    \A r \in Reqs :
        /\ WF_vars(log_requests_body(r))
        /\ WF_vars(call_next_returns(r) \/ call_next_raises(r))
        /\ WF_vars(log_requests_exit(r))
        /\ WF_vars(exception_handler_runs(r))

FairSpec == Spec /\ Fairness

\* --------------------------------------------- the sampler next to requests
\* variant: startup_event calls log_system_stats() itself, on the event loop
EventLoopBusy_direct_call == sampler_pc \in {"measure", "log", "sleep"}

\* line 42: loop.run_in_executor(None, log_system_stats) hands the sampler to
\* a worker thread of the default executor and is not awaited, so the blocking
\* calls of lines 31 and 37 never hold the event loop
EventLoopBusy == FALSE

\* a step of a coroutine: it runs when the event loop is free
OnLoop(A) == ~EventLoopBusy /\ A

\* any step of request r in the pipeline
RequestStep(r) ==
    OnLoop(\/ log_requests_entry(r)
           \/ log_requests_body(r)
           \/ call_next_returns(r)
           \/ call_next_raises(r)
           \/ log_requests_exit(r)
           \/ exception_handler_runs(r))

\* requests and the sampler side by side, for the sampler's first rounds
FullNext ==
    \/ startup_event
    \/ sampler_measure
    \/ sampler_read_fails
    \/ stats_count < MaxOverlapRecords /\ sampler_log
    \/ sampler_sleep
    \/ \E r \in Reqs : OnLoop(log_requests_entry(r))
    \/ \E r \in Reqs : OnLoop(log_requests_body(r))
    \/ \E r \in Reqs : OnLoop(call_next_returns(r))
    \/ \E r \in Reqs : OnLoop(call_next_raises(r))
    \/ \E r \in Reqs : OnLoop(log_requests_exit(r))
    \/ \E r \in Reqs : OnLoop(exception_handler_runs(r))

FullSpec == Init /\ [][FullNext]_vars

\* ------------------------------------------------------------ cancellation
\* the transport cancels the task of request r while log_requests is
\* suspended on line 83 or line 89: CancelledError is raised at the await. It
\* is no Exception, so neither line 86 nor the handler of lines 141-144
\* catches it, and log_requests has no finally: the coroutine unwinds
request_cancelled(r) ==
    /\ pc[r] \in {"await_body", "await_handler"}
    /\ pc' = [pc EXCEPT ![r] = "cancelled"]
    /\ exc' = [exc EXCEPT ![r] = "CancelledError"]
    /\ path' = [path EXCEPT ![r] = @ \o << "Cancelled" >>]
    /\ UNCHANGED <<process, sink_stalled, started, now, DUMMY_PRODUCTS, request, start_time, response, call_count, sent, body_result, sink, samplervars>>

CancelNext ==
    \/ Next
    \/ \E r \in Reqs : request_cancelled(r)

CancelSpec == Init /\ [][CancelNext]_vars

\* ------------------------------------------------------- a slow log file
\* lines 17-21: basicConfig(filename=...) installs a FileHandler; emit()
\* writes and flushes in the calling thread, so a logging call returns only
\* when the file took the record
LogWrite(A) == ~sink_stalled /\ A

\* the destination stops taking writes (full disk queue, stalled mount)
sink_stalls ==
    /\ started
    /\ ~sink_stalled
    /\ sink_stalled' = TRUE
    /\ UNCHANGED <<process, started, now, DUMMY_PRODUCTS, reqvars, sink, samplervars>>

sink_recovers ==
    /\ sink_stalled
    /\ sink_stalled' = FALSE
    /\ UNCHANGED <<process, started, now, DUMMY_PRODUCTS, reqvars, sink, samplervars>>

SlowSinkNext ==
    \/ LogWrite(startup_event)
    \/ sink_stalls
    \/ sink_recovers
    \/ \E r \in Reqs : LogWrite(log_requests_entry(r))
    \/ \E r \in Reqs : LogWrite(log_requests_body(r))
    \/ \E r \in Reqs : LogWrite(call_next_returns(r))
    \/ \E r \in Reqs : call_next_raises(r)
    \/ \E r \in Reqs : LogWrite(log_requests_exit(r))
    \/ \E r \in Reqs : LogWrite(exception_handler_runs(r))

SlowSinkSpec == Init /\ [][SlowSinkNext]_vars

\* ---------------------------------------------------------- all the routes
\* two clients that may ask for any route and any product id
RouteNext ==
    \/ startup_event
    \/ \E r \in Reqs : request_enters(r, AllTargets)
    \/ \E r \in Reqs : log_requests_body(r)
    \/ \E r \in Reqs : call_next_returns(r)
    \/ \E r \in Reqs : call_next_raises(r)
    \/ \E r \in Reqs : log_requests_exit(r)
    \/ \E r \in Reqs : exception_handler_runs(r)

RouteSpec == Init /\ [][RouteNext]_vars

\* ------------------------------------------------------- the logger tree
\* handlers on logs/server.log, per logger: basicConfig(filename=LOG_FILE)
\* gives the root logger one (lines 17-21), line 26 adds one to "uvicorn"
FileHandlers(logger) ==
    CASE logger = "root" -> 1
      [] logger = "uvicorn" -> 1
      [] OTHER -> 0

\* logging.getLogger("uvicorn") on line 24: a child of the root logger whose
\* propagate flag main.py leaves at the default of the logging module
Propagates(logger) == logger # "root"

\* Logger.callHandlers: the handlers of the logger, then those of its
\* ancestors as long as propagate is set: the number of lines one record
\* leaves in logs/server.log
LinesWritten(logger) ==
    FileHandlers(logger) + (IF Propagates(logger) THEN FileHandlers("root") ELSE 0)

Repeat(rec, n) == [i \in 1..n |-> rec]

UvicornRecords == { sink[i].data : i \in { k \in DOMAIN sink : sink[k].req = "uvicorn" } }

\* the server logs a record through the "uvicorn" logger
uvicorn_logs ==
    /\ process = "running"
    /\ Cardinality(UvicornRecords) < MaxUvicornRecords
    /\ LET rec == LogRecord("uvicorn", "INFO", "uvicorn", << Cardinality(UvicornRecords) + 1 >>)
       IN  sink' = sink \o Repeat(rec, LinesWritten("uvicorn"))
    /\ UNCHANGED <<process, sink_stalled, started, now, DUMMY_PRODUCTS, reqvars, samplervars>>

LoggerNext ==
    \/ startup_event
    \/ uvicorn_logs
    \/ \E r \in Reqs : log_requests_entry(r)
    \/ \E r \in Reqs : log_requests_body(r)
    \/ \E r \in Reqs : call_next_returns(r)
    \/ \E r \in Reqs : call_next_raises(r)
    \/ \E r \in Reqs : log_requests_exit(r)
    \/ \E r \in Reqs : exception_handler_runs(r)

LoggerSpec == Init /\ [][LoggerNext]_vars

\* the sampler thread alone, after startup
SamplerNext ==
    \/ startup_event
    \/ sampler_measure
    \/ sampler_read_fails
    \/ sampler_log
    \/ sampler_sleep

SamplerSpec == Init /\ [][SamplerNext]_vars

\* ================================================================= claims
Range(s) == { s[i] : i \in DOMAIN s }

RecordsOf(r, kind) == RecordsOfKind(r, kind)

Went(r, stage) == stage \in Range(path[r])

TerminalRecords(r) == RecordsOf(r, "Response") \cup RecordsOf(r, "Unhandled error")

\* the records the routes write
RouteKinds ==
    { "Processing homepage", "Processing product", "Product not found",
      "Add to Cart failed", "Product added to cart", "Undefined route" }

GenericFallback == [status |-> 500, body |-> "Internal server error"]

IsPrefix(s, t) == Len(s) <= Len(t) /\ \A i \in DOMAIN s : s[i] = t[i]

\* the orders of stages the state machine of the interceptor allows
AllowedPaths ==
    { << "Received", "BodyCaptured", "Dispatched", "Completed", "Logged", "Responded" >>,
      << "Received", "Dispatched", "Completed", "Logged", "Responded" >>,
      << "Received", "BodyCaptured", "Dispatched", "Faulted", "Logged", "Responded" >>,
      << "Received", "Dispatched", "Faulted", "Logged", "Responded" >> }

StagesInOrder == \A r \in Reqs : \E p \in AllowedPaths : IsPrefix(path[r], p)

Responded(r) == path[r] # << >> /\ path[r][Len(path[r])] = "Responded"

\* C7: every request passes the stages Received, BodyCaptured (optional),
\* Dispatched, Completed or Faulted, Logged, Responded in this order and in no
\* other; it has left the pipeline only once it is Responded, and every
\* request that was Received is eventually Responded.
C7_StateMachine ==
    /\ [](StagesInOrder /\ \A r \in Reqs : (pc[r] = "done" <=> Responded(r)))
    /\ \A r \in Reqs : (pc[r] = "await_body") ~> Responded(r)

C7_Witness ==
    /\ path["A"] = << "Received", "Dispatched", "Faulted", "Logged", "Responded" >>
    /\ path["B"] = << "Received", "BodyCaptured", "Dispatched", "Completed", "Logged", "Responded" >>

\* C1: for every request that enters log_requests exactly one response
\* leaves towards the client, on the success path, on the fault path and with
\* an unreadable body: none before the request is finished, one when it is,
\* never two.
C1_ExactlyOneResponse ==
    \A r \in Reqs :
        /\ Len(sent[r]) <= 1
        /\ pc[r] = "done" => Len(sent[r]) = 1
        /\ pc[r] # "done" => sent[r] = << >>

C1_Witness ==
    /\ pc["A"] = "done" /\ Went("A", "Faulted") /\ Len(sent["A"]) = 1
    /\ pc["B"] = "done" /\ Went("B", "Completed") /\ body_result["B"] = "failed"
    /\ Len(sent["B"]) = 1

C3_OneEntryOneTerminal ==
    \A r \in Reqs :
        /\ Cardinality(RecordsOf(r, "Request")) = (IF pc[r] = "idle" THEN 0 ELSE 1)
        /\ pc[r] # "done" => TerminalRecords(r) = {}
        /\ pc[r] = "done" =>
            /\ Cardinality(TerminalRecords(r)) = 1
            /\ Went(r, "Completed") => RecordsOf(r, "Unhandled error") = {}
            /\ Went(r, "Faulted") => RecordsOf(r, "Response") = {}
            /\ \A i \in RecordsOf(r, "Request") : \A j \in TerminalRecords(r) : i < j

C3_Witness ==
    /\ pc["A"] = "done" /\ Cardinality(RecordsOf("A", "Response")) = 1
    /\ pc["B"] = "done" /\ Cardinality(RecordsOf("B", "Unhandled error")) = 1

\* C4: call_next is invoked exactly once per request, whatever the body read
\* came to (text, empty, or an error): never before the body step, once after
\* it, never a second time.
C4_CallNextOnce ==
    \A r \in Reqs :
        call_count[r] = (IF body_result[r] = "pending" THEN 0 ELSE 1)

C4_Witness ==
    /\ pc["A"] = "done" /\ body_result["A"] = "failed" /\ call_count["A"] = 1
    /\ pc["B"] = "done" /\ body_result["B"] = "empty" /\ call_count["B"] = 1

\* C5: when the body read or the decode fails, the notice is logged and no
\* body record, the route is still dispatched, and the response that leaves
\* is the one the route makes for that request.
C5_UnreadableBodyContinues ==
    \A r \in Reqs :
        body_result[r] = "failed" =>
            /\ Cardinality(RecordsOf(r, "Unable to read request body")) = 1
            /\ RecordsOf(r, "Request Body") = {}
            /\ Went(r, "Dispatched")
            /\ pc[r] \in {"await_handler", "returned", "raised", "done"}
            /\ (pc[r] = "done" /\ Went(r, "Completed")) =>
                    sent[r] = << RouteCall(r, request[r], InitialProducts).response >>

C5_Witness ==
    \E r \in Reqs :
        /\ body_result[r] = "failed" /\ pc[r] = "done" /\ Went(r, "Completed")
        /\ sent[r][1].status = 200

\* C6: after a counter query of the sampler has raised, a warning is in the
\* sink and the sampling loop is still running.
C6_SamplerSurvivesFault ==
    sampler_fault =>
        /\ sampler_pc # "exited"
        /\ \E i \in DOMAIN sink : sink[i].req = "sampler" /\ sink[i].level = "WARNING"

\* C8: every exit record comes after the entry record of the same request,
\* with a timestamp that is not smaller, and is written only after the route
\* was dispatched, has written its records and has returned.
C8_EntryBeforeExit ==
    \A r \in Reqs :
        \A j \in RecordsOf(r, "Response") :
            /\ \E i \in RecordsOf(r, "Request") : i < j /\ sink[i].ts <= sink[j].ts
            /\ \E k \in DOMAIN sink : k < j /\ sink[k].req = r /\ sink[k].kind \in RouteKinds
            /\ Went(r, "Dispatched") /\ Went(r, "Completed")

C8_Witness ==
    \E r \in Reqs :
        \E i \in RecordsOf(r, "Request") : \E j \in RecordsOf(r, "Response") :
            i < j /\ sink[i].ts < sink[j].ts

\* C9: with two requests in flight, the entry record of each carries its own
\* method and URL, and its exit record carries the status of its own response
\* and the time elapsed since its own entry record.
C9_OwnPair ==
    \A r \in Reqs :
        /\ \A i \in RecordsOf(r, "Request") :
            /\ sink[i].data = << request[r].method, request[r].route, request[r].product_id >>
            /\ sink[i].ts = start_time[r]
        /\ \A j \in RecordsOf(r, "Response") :
            \E i \in RecordsOf(r, "Request") :
                /\ sink[j].data[2] = sink[j].ts - sink[i].ts
                /\ sink[j].data[1] = RouteCall(r, request[r], InitialProducts).response.status
                /\ pc[r] = "done" => sink[j].data[1] = sent[r][1].status

\* A and B overlap: A enters, B enters, A's exit record, B's exit record, with
\* different start times, durations and statuses
C9_Witness ==
    \E ia \in RecordsOf("A", "Request") : \E ib \in RecordsOf("B", "Request") :
    \E ja \in RecordsOf("A", "Response") : \E jb \in RecordsOf("B", "Response") :
        /\ ia < ib /\ ib < ja /\ ja < jb
        /\ sink[ia].ts # sink[ib].ts
        /\ sink[ja].data[2] # sink[jb].data[2]
        /\ sink[ja].data[1] # sink[jb].data[1]

\* C10: while no counter query has failed, the loop has not returned and the
\* number of stats records differs from the running time divided by the
\* sleep interval by at most one.
C10_OneRecordPerInterval ==
    ~sampler_fault =>
        /\ sampler_pc # "exited"
        /\ stats_count * SleepSeconds - uptime <= SleepSeconds
        /\ uptime - stats_count * SleepSeconds <= SleepSeconds

SamplerRunning == sampler_pc \in {"measure", "log", "sleep"}

\* C11: the sampler never holds up a request: startup has completed while
\* the sampler loop runs, and whatever the sampler is doing (measuring,
\* logging, sleeping), a request that has not been answered yet can take its
\* next step, and a new request can enter.
C11_SamplerNeverBlocks ==
    /\ SamplerRunning => started
    /\ \A r \in Reqs : (started /\ pc[r] # "done") => ENABLED RequestStep(r)

\* a request was received and answered after the stats record, while the
\* sampler is still in the sleep that follows that record
C11_Witness ==
    /\ sampler_pc = "sleep" /\ stats_count = 1
    /\ \E i \in DOMAIN sink : \E j \in RecordsOf("A", "Request") : \E k \in RecordsOf("A", "Response") :
        sink[i].kind = "System Stats" /\ i < j /\ j < k

\* C12: the process is ended only by the import failing to open the log
\* file, and then nothing was started, logged or served; a fault in the
\* interceptor or in the sampler leaves the process running.
C12_OnlyStartupAbort ==
    process = "aborted" =>
        /\ ~started
        /\ sink = << >>
        /\ sampler_pc = "not_started" /\ ~sampler_fault
        /\ \A r \in Reqs : pc[r] = "idle" /\ sent[r] = << >>

C12_Witness ==
    /\ process = "running"
    /\ sampler_fault
    /\ \E r \in Reqs : pc[r] = "done" /\ Went(r, "Faulted")

\* C13: the completion record is written at INFO and carries the status of
\* the response that was returned, the duration since the entry record, which
\* is not negative, and the method and the URL of the request.
C13_CompletionRecord ==
    \A r \in Reqs :
        \A j \in RecordsOf(r, "Response") :
            /\ sink[j].level = "INFO"
            /\ sink[j].data[1] = response[r].status
            /\ sink[j].data[2] = sink[j].ts - start_time[r]
            /\ sink[j].data[2] >= 0
            /\ Len(sink[j].data) = 5
            /\ sink[j].data[3] = request[r].method
            /\ sink[j].data[4] = request[r].route
            /\ sink[j].data[5] = request[r].product_id

\* C14: a request whose route returned has, once it is answered, exactly one
\* DEBUG record written after the records of its route: the response
\* headers.
C14_ResponseHeadersLogged ==
    \A r \in Reqs :
        (pc[r] = "done" /\ Went(r, "Completed")) =>
            Cardinality({ i \in DOMAIN sink :
                            /\ sink[i].req = r
                            /\ sink[i].level = "DEBUG"
                            /\ \E k \in DOMAIN sink :
                                k < i /\ sink[k].req = r /\ sink[k].kind \in RouteKinds }) = 1

\* C15: a request that was cancelled in the body read or in the handler call
\* has a terminal record after its entry record.
C15_CancelledStillLogs ==
    \A r \in Reqs :
        pc[r] = "cancelled" =>
            \E i \in RecordsOf(r, "Request") : \E j \in TerminalRecords(r) : i < j

\* C16: a stalled log file does not hold back a response: once the route has
\* returned, the response can leave, whether the file takes writes or not.
C16_FireAndForget ==
    \A r \in Reqs :
        pc[r] = "returned" => ENABLED LogWrite(log_requests_exit(r))

\* C17: a request with an empty body has its entry record and its headers
\* record, no body record and no notice; its route is dispatched once and the
\* route's response is the one that leaves, 200 for the page of a catalog
\* product.
C17_EmptyBody ==
    \A r \in Reqs :
        body_result[r] = "empty" =>
            /\ Cardinality(RecordsOf(r, "Request")) = 1
            /\ Cardinality(RecordsOf(r, "Headers")) = 1
            /\ RecordsOf(r, "Request Body") = {}
            /\ RecordsOf(r, "Unable to read request body") = {}
            /\ call_count[r] = 1
            /\ (pc[r] = "done" /\ Went(r, "Completed")) =>
                /\ sent[r] = << RouteCall(r, request[r], InitialProducts).response >>
                /\ request[r].route = "product_detail" => sent[r][1].status = 200

C17_Witness ==
    \E r \in Reqs :
        /\ body_result[r] = "empty" /\ pc[r] = "done"
        /\ request[r].route = "product_detail" /\ sent[r] # << >> /\ sent[r][1].status = 200

\* C18: no record is in the log file twice: two lines of the file that agree
\* in logger, message, time and fields are the same line.
C18_WrittenOnce ==
    \A i, j \in DOMAIN sink :
        ( /\ sink[i].req = sink[j].req
          /\ sink[i].kind = sink[j].kind
          /\ sink[i].ts = sink[j].ts
          /\ sink[i].data = sink[j].data ) => i = j

\* C19: of the two handlers registered for Exception the second one is in
\* force: every fault, on every route, is answered by the JSON handler with
\* status 500, never with the 404 template, and has one error record.
C19_JsonHandlerOnly ==
    /\ exception_handlers = "json"
    /\ \A r \in Reqs :
        (pc[r] = "done" /\ Went(r, "Faulted")) =>
            /\ sent[r] = << GenericFallback >>
            /\ sent[r][1].body # "404.html"
            /\ Cardinality(RecordsOf(r, "Unhandled error")) = 1

C19_Witness ==
    /\ pc["A"] = "done" /\ Went("A", "Faulted") /\ request["A"].route = "product_detail"
    /\ pc["B"] = "done" /\ Went("B", "Faulted") /\ request["B"].route = "add_to_cart"

\* C20: the catalog is the same three products in every state, and the two
\* product routes answer 404 exactly for the ids that are not 1, 2 or 3, and
\* 200 for the others, whatever was requested before.
C20_CatalogFixed ==
    /\ DUMMY_PRODUCTS = InitialProducts
    /\ \A r \in Reqs :
        (Went(r, "Completed") /\ request[r].route \in {"product_detail", "add_to_cart"}) =>
            response[r].status = (IF request[r].product_id \in {1, 2, 3} THEN 200 ELSE 404)

\* B asks for the page of product 3 after A's cart post for it was answered,
\* and gets it
C20_Witness ==
    /\ pc["A"] = "done" /\ request["A"].route = "add_to_cart" /\ request["A"].product_id = 3
    /\ response["A"].status = 200
    /\ pc["B"] = "done" /\ request["B"].route = "product_detail" /\ request["B"].product_id = 3
    /\ response["B"].status = 200
    /\ \E i \in RecordsOf("A", "Response") : \E j \in RecordsOf("B", "Request") : i < j

====
